---- MODULE Spec2Model ----
(***************************************************************************)
(* Model of src/Levenshtein.py: class Levenshtein.                         *)
(*                                                                         *)
(* A Levenshtein object is built from a source sequence, a target sequence *)
(* and a cost triple (insertion, deletion, substitution).  The constructor *)
(* fills the distance matrix D (__edit_distance) and walks it back from    *)
(* the bottom-right cell to the top-left one (__backtrace), one loop       *)
(* iteration per step of the model.                                        *)
(*                                                                         *)
(* Python lists are 0-based, TLA+ sequences 1-based: the matrix cell the   *)
(* code calls D[i][j] is Cell(D, i, j) == D[i + 1][j + 1], and the symbol  *)
(* the code calls source[i] is source[i + 1].  The indices i, j of the     *)
(* model and of the edit records are the code's 0-based ones.              *)
(***************************************************************************)
EXTENDS Integers, Sequences, FiniteSets, TLC

VARIABLES source, target, costs, D, i, j, edits, pc, iters

vars == <<source, target, costs, D, i, j, edits, pc, iters>>

----------------------------------------------------------------------------
(* Bounds of the model *)

MaxLen == 3

MaxCost == 2

MaxCell == 2

Alphabet == {"a", "b"}

Strs == UNION {[1..n -> Alphabet] : n \in 0..MaxLen}

Costs == (0..MaxCost) \X (0..MaxCost) \X (0..MaxCost)

SignedCosts == ((0 - MaxCost)..MaxCost) \X ((0 - MaxCost)..MaxCost) \X ((0 - MaxCost)..MaxCost)

\* More loop iterations than any terminating backtrace needs (at most
\* Len(source) + Len(target)); it only caps a backtrace that does not advance.
MaxIters == 2 * MaxLen + 3

----------------------------------------------------------------------------
(* __edit_distance *)

Cell(M, r, k) == M[r + 1][k + 1]

SetCell(M, r, k, v) == [M EXCEPT ![r + 1][k + 1] = v]

\* D = [[0 for i in range(cols)] for j in range(rows)]
ZeroMatrix(rows, cols) == [r \in 1..rows |-> [k \in 1..cols |-> 0]]

\* Mutant: the first column filled with the wrong entry of the cost triple.
InitFirstColumnWrongCost(M, c) == [r \in 1..Len(M) |-> [M[r] EXCEPT ![1] = (r - 1) * c[3]]]

\* for i in range(rows): D[i][0] = i * deletion_cost
InitFirstColumn(M, c) == [r \in 1..Len(M) |-> [M[r] EXCEPT ![1] = (r - 1) * c[2]]]

\* for j in range(cols): D[0][j] = j * insertion_cost
InitFirstRow(M, c) == [M EXCEPT ![1] = [k \in 1..Len(M[1]) |-> (k - 1) * c[1]]]

\* Mutant: the substitution candidate left out of the minimum.
Min3TwoWay(x, y, z) == IF x <= y THEN x ELSE y

\* min(insertion, deletion, substitution)
Min3(x, y, z) == IF x <= y /\ x <= z THEN x ELSE IF y <= z THEN y ELSE z

\* insertion = D[i][j - 1] + insertion_cost
InsertionOf(M, r, k, c) == Cell(M, r, k - 1) + c[1]

\* deletion = D[i - 1][j] + deletion_cost
DeletionOf(M, r, k, c) == Cell(M, r - 1, k) + c[2]

\* substitution = D[i - 1][j - 1] + substitution_cost
SubstitutionOf(M, r, k, c) == Cell(M, r - 1, k - 1) + c[3]

\* Mutant: the symbol test inverted.
CellValueInvertedTest(M, s, t, c, r, k) ==
    IF s[r] # t[k]
    THEN Cell(M, r - 1, k - 1)
    ELSE Min3(InsertionOf(M, r, k, c), DeletionOf(M, r, k, c), SubstitutionOf(M, r, k, c))

\* The body of the nested loops: the value written to D[r][k], r, k >= 1.
CellValue(M, s, t, c, r, k) ==
    IF s[r] = t[k]
    THEN Cell(M, r - 1, k - 1)
    ELSE Min3(InsertionOf(M, r, k, c), DeletionOf(M, r, k, c), SubstitutionOf(M, r, k, c))

\* for i in range(1, rows): for j in range(1, cols): ...   (row-major order)
RECURSIVE FillRest(_, _, _, _, _, _)
FillRest(M, s, t, c, r, k) ==
    IF r > Len(s) THEN M
    ELSE IF k > Len(t) THEN FillRest(M, s, t, c, r + 1, 1)
    ELSE FillRest(SetCell(M, r, k, CellValue(M, s, t, c, r, k)), s, t, c, r, k + 1)

EditDistance(s, t, c) ==
    FillRest(InitFirstRow(InitFirstColumn(ZeroMatrix(Len(s) + 1, Len(t) + 1), c), c),
             s, t, c, 1, 1)

\* distance(): self.D[-1][-1]
distance == D[Len(D)][Len(D[Len(D)])]

\* The same computation for another pair of sequences: Levenshtein(s, t, c).distance()
Dist(s, t, c) == LET M == EditDistance(s, t, c) IN M[Len(M)][Len(M[Len(M)])]

----------------------------------------------------------------------------
(* __backtrace *)

MatchGuard(M, r, k, c) ==
    (r # 0 /\ k # 0) /\ Cell(M, r, k) = Cell(M, r - 1, k - 1)

SubstitutionGuard(M, r, k, c) ==
    (r # 0 /\ k # 0) /\ Cell(M, r, k) = Cell(M, r - 1, k - 1) + c[3]

\* Mutant: the deletion branch taken without the cost test.
DeletionGuardNoCostTest(M, r, k, c) ==
    r # 0

DeletionGuard(M, r, k, c) ==
    r # 0 /\ Cell(M, r, k) = Cell(M, r - 1, k) + c[2]

InsertionGuard(M, r, k, c) ==
    k # 0 /\ Cell(M, r, k) = Cell(M, r, k - 1) + c[1]

\* Mutant: Insertion tested before Deletion.
BranchInsertionFirst(M, r, k, c) ==
    IF (r # 0 /\ k # 0) /\ Cell(M, r, k) = Cell(M, r - 1, k - 1) THEN "Match"
    ELSE IF (r # 0 /\ k # 0) /\ Cell(M, r, k) = Cell(M, r - 1, k - 1) + c[3] THEN "Substitution"
    ELSE IF k # 0 /\ Cell(M, r, k) = Cell(M, r, k - 1) + c[1] THEN "Insertion"
    ELSE IF r # 0 /\ Cell(M, r, k) = Cell(M, r - 1, k) + c[2] THEN "Deletion"
    ELSE "None"

\* Mutant: Substitution tested before Match.
BranchSubstitutionFirst(M, r, k, c) ==
    IF (r # 0 /\ k # 0) /\ Cell(M, r, k) = Cell(M, r - 1, k - 1) + c[3] THEN "Substitution"
    ELSE IF (r # 0 /\ k # 0) /\ Cell(M, r, k) = Cell(M, r - 1, k - 1) THEN "Match"
    ELSE IF r # 0 /\ Cell(M, r, k) = Cell(M, r - 1, k) + c[2] THEN "Deletion"
    ELSE IF k # 0 /\ Cell(M, r, k) = Cell(M, r, k - 1) + c[1] THEN "Insertion"
    ELSE "None"

\* The if / elif chain of the loop body: the branch taken at cell (r, k),
\* "None" when no branch is taken.
Branch(M, r, k, c) ==
    IF MatchGuard(M, r, k, c) THEN "Match"
    ELSE IF SubstitutionGuard(M, r, k, c) THEN "Substitution"
    ELSE IF DeletionGuard(M, r, k, c) THEN "Deletion"
    ELSE IF InsertionGuard(M, r, k, c) THEN "Insertion"
    ELSE "None"

\* Mutant: the Deletion branch leaves i where it is.
NextIDeletionStays(b, r) == IF b \in {"Match", "Substitution"} THEN r - 1 ELSE r

\* i, j = ... of the branch taken
NextI(b, r) == IF b \in {"Match", "Substitution", "Deletion"} THEN r - 1 ELSE r

NextJ(b, k) == IF b \in {"Match", "Substitution", "Insertion"} THEN k - 1 ELSE k

\* edits.append({"type": ..., "i": i, "j": j}), with i, j already moved
Record(b, r, k) == [type |-> b, i |-> NextI(b, r), j |-> NextJ(b, k)]

\* edits.reverse()
Reverse(seq) == [x \in 1..Len(seq) |-> seq[Len(seq) + 1 - x]]

\* edit_ops(): self.edits
edit_ops == edits

----------------------------------------------------------------------------
(* The constructor, step by step *)

Init ==
    /\ source \in Strs
    /\ target \in Strs
    /\ costs \in Costs
    /\ D = <<>>
    /\ i = 0
    /\ j = 0
    /\ edits = <<>>
    /\ pc = "init"
    /\ iters = 0

\* self.D = self.__edit_distance(), then the prologue of __backtrace
ComputeMatrix ==
    /\ pc = "init"
    /\ D' = EditDistance(source, target, costs)
    /\ i' = Len(source)
    /\ j' = Len(target)
    /\ edits' = <<>>
    /\ pc' = "backtrace"
    /\ UNCHANGED <<source, target, costs, iters>>

\* One iteration of: while not (i == 0 and j == 0)
BacktraceStep ==
    /\ pc = "backtrace"
    /\ ~(i = 0 /\ j = 0)
    /\ iters < MaxIters
    /\ LET b == Branch(D, i, j, costs) IN
        /\ i' = NextI(b, i)
        /\ j' = NextJ(b, j)
        /\ edits' = IF b = "None" THEN edits ELSE Append(edits, Record(b, i, j))
    /\ iters' = iters + 1
    /\ UNCHANGED <<source, target, costs, D, pc>>

\* The loop ends: edits.reverse(); return edits
BacktraceReturn ==
    /\ pc = "backtrace"
    /\ i = 0 /\ j = 0
    /\ edits' = Reverse(edits)
    /\ pc' = "done"
    /\ UNCHANGED <<source, target, costs, D, i, j, iters>>

Next == ComputeMatrix \/ BacktraceStep \/ BacktraceReturn

Spec == Init /\ [][Next]_vars

\* Computations with source = target = A, under any cost triple, negative
\* costs included (the constructor checks nothing).
InitIdentical ==
    /\ source \in Strs
    /\ target = source
    /\ costs \in SignedCosts
    /\ D = <<>>
    /\ i = 0
    /\ j = 0
    /\ edits = <<>>
    /\ pc = "init"
    /\ iters = 0

SpecIdentical == InitIdentical /\ [][Next]_vars

\* __backtrace entered on a matrix one cell of which was overwritten after
\* __edit_distance built it: D is a plain attribute holding nested lists,
\* and __backtrace reads it (D = self.D) without checking it.
InitMutated ==
    /\ source \in Strs
    /\ target \in Strs
    /\ costs \in Costs
    /\ \E r \in 0..Len(source) : \E k \in 0..Len(target) : \E v \in 0..MaxCell :
          D = SetCell(EditDistance(source, target, costs), r, k, v)
    /\ i = Len(source)
    /\ j = Len(target)
    /\ edits = <<>>
    /\ pc = "backtrace"
    /\ iters = 0

NextBacktrace == BacktraceStep \/ BacktraceReturn

SpecMutated == InitMutated /\ [][NextBacktrace]_vars

----------------------------------------------------------------------------
(* Edit scripts, independently of the matrix *)

SetMin(S) == CHOOSE x \in S : \A y \in S : x <= y

\* The total costs of all edit scripts that turn the first r symbols of s
\* into the first k symbols of t, given the table T of the smaller prefixes:
\* a script ends with an insertion, a deletion, a substitution or, when the
\* last symbols are equal, a free match.
ScriptCostsAt(T, s, t, c, r, k) ==
    IF r = 0 /\ k = 0 THEN {0}
    ELSE (IF k > 0 THEN {x + c[1] : x \in Cell(T, r, k - 1)} ELSE {})
         \cup (IF r > 0 THEN {x + c[2] : x \in Cell(T, r - 1, k)} ELSE {})
         \cup (IF r > 0 /\ k > 0 THEN {x + c[3] : x \in Cell(T, r - 1, k - 1)} ELSE {})
         \cup (IF r > 0 /\ k > 0 /\ s[r] = t[k] THEN Cell(T, r - 1, k - 1) ELSE {})

RECURSIVE FillScriptCosts(_, _, _, _, _, _)
FillScriptCosts(T, s, t, c, r, k) ==
    IF r > Len(s) THEN T
    ELSE IF k > Len(t) THEN FillScriptCosts(T, s, t, c, r + 1, 0)
    ELSE FillScriptCosts(SetCell(T, r, k, ScriptCostsAt(T, s, t, c, r, k)), s, t, c, r, k + 1)

ScriptCosts(s, t, c) ==
    FillScriptCosts([r \in 1..(Len(s) + 1) |-> [k \in 1..(Len(t) + 1) |-> {}]], s, t, c, 0, 0)

NonNegative(c) == c[1] >= 0 /\ c[2] >= 0 /\ c[3] >= 0

----------------------------------------------------------------------------
(* Claims *)

\* C1: for non-negative costs every cell D[r][k] of the matrix the
\* constructor builds is the minimum total cost over all edit scripts that
\* turn the first r symbols of source into the first k symbols of target,
\* and distance() is that minimum for the whole sequences.
C1_MatrixIsMinimal ==
    (pc = "done" /\ NonNegative(costs)) =>
        LET T == ScriptCosts(source, target, costs) IN
            /\ Len(D) = Len(source) + 1
            /\ \A r \in 0..Len(source) :
                /\ Len(D[r + 1]) = Len(target) + 1
                /\ \A k \in 0..Len(target) : Cell(D, r, k) = SetMin(Cell(T, r, k))
            /\ distance = SetMin(Cell(T, Len(source), Len(target)))

C1_Witness ==
    /\ pc = "done"
    /\ Len(source) >= 2 /\ Len(target) >= 2 /\ source # target
    /\ costs[1] # costs[2] /\ costs[3] > costs[1] + costs[2] /\ costs[1] > 0
    /\ \E r \in 1..Len(source) : \E k \in 1..Len(target) : source[r] = target[k]
    /\ distance > 0

\* Replaying a script against s, from the beginning of both sequences:
\* Match and Substitution consume one symbol from each side, Deletion one
\* from s, Insertion one from t; Match keeps the consumed symbol of s,
\* Substitution and Insertion write the consumed symbol of t, Deletion
\* writes nothing.  ok turns FALSE when a record consumes past an end.
RECURSIVE ReplayFrom(_, _, _, _, _)
ReplayFrom(ops, s, t, n, st) ==
    IF n > Len(ops) \/ ~st.ok THEN st
    ELSE LET ty == ops[n].type
             needS == ty \in {"Match", "Substitution", "Deletion"}
             needT == ty \in {"Match", "Substitution", "Insertion"}
         IN IF (needS /\ st.si >= Len(s)) \/ (needT /\ st.tj >= Len(t))
            THEN [st EXCEPT !.ok = FALSE]
            ELSE ReplayFrom(ops, s, t, n + 1,
                     [ok |-> TRUE,
                      si |-> IF needS THEN st.si + 1 ELSE st.si,
                      tj |-> IF needT THEN st.tj + 1 ELSE st.tj,
                      out |-> IF ty = "Match" THEN Append(st.out, s[st.si + 1])
                              ELSE IF ty = "Deletion" THEN st.out
                              ELSE Append(st.out, t[st.tj + 1])])

Replay(ops, s, t) == ReplayFrom(ops, s, t, 1, [ok |-> TRUE, si |-> 0, tj |-> 0, out |-> <<>>])

\* C2: for non-negative costs, replaying edit_ops() against source consumes
\* exactly all of source and produces exactly target.
C2_ReplayReconstructsTarget ==
    (pc = "done" /\ NonNegative(costs)) =>
        LET st == Replay(edit_ops, source, target) IN
            st.ok /\ st.si = Len(source) /\ st.out = target

OpCost(ty, c) ==
    IF ty = "Match" THEN 0
    ELSE IF ty = "Substitution" THEN c[3]
    ELSE IF ty = "Deletion" THEN c[2]
    ELSE c[1]

RECURSIVE SumCosts(_, _, _)
SumCosts(ops, c, n) == IF n > Len(ops) THEN 0 ELSE OpCost(ops[n].type, c) + SumCosts(ops, c, n + 1)

\* C3: for non-negative costs the costs of the records of edit_ops()
\* (Match 0, the others by the cost triple) add up to distance().
C3_ScriptCostIsDistance ==
    (pc = "done" /\ NonNegative(costs)) => SumCosts(edit_ops, costs, 1) = distance

C3_Witness ==
    /\ pc = "done"
    /\ costs[1] # costs[2] /\ costs[2] # costs[3] /\ costs[1] # costs[3]
    /\ \E n \in 1..Len(edit_ops) : edit_ops[n].type = "Substitution"
    /\ \E n \in 1..Len(edit_ops) : edit_ops[n].type \in {"Deletion", "Insertion"}
    /\ \E n \in 1..Len(edit_ops) : edit_ops[n].type = "Match"
    /\ distance > 0

\* The backtrace as the specification words it, giving the script in
\* start-to-end order: at cell (r, k) the first of Match, Substitution,
\* Deletion, Insertion whose condition holds is the last record of the
\* script, after the script of the cell it moves to.
RECURSIVE SpecScript(_, _, _, _)
SpecScript(M, r, k, c) ==
    IF r = 0 /\ k = 0 THEN <<>>
    ELSE LET cur == Cell(M, r, k) IN
        IF r > 0 /\ k > 0 /\ cur = Cell(M, r - 1, k - 1)
        THEN Append(SpecScript(M, r - 1, k - 1, c), [type |-> "Match", i |-> r - 1, j |-> k - 1])
        ELSE IF r > 0 /\ k > 0 /\ cur = Cell(M, r - 1, k - 1) + c[3]
        THEN Append(SpecScript(M, r - 1, k - 1, c), [type |-> "Substitution", i |-> r - 1, j |-> k - 1])
        ELSE IF r > 0 /\ cur = Cell(M, r - 1, k) + c[2]
        THEN Append(SpecScript(M, r - 1, k, c), [type |-> "Deletion", i |-> r - 1, j |-> k])
        ELSE IF k > 0 /\ cur = Cell(M, r, k - 1) + c[1]
        THEN Append(SpecScript(M, r, k - 1, c), [type |-> "Insertion", i |-> r, j |-> k - 1])
        ELSE <<>>

C10_MatchMeansSameSymbol ==
    (pc = "done" /\ NonNegative(costs)) =>
        \A n \in 1..Len(edit_ops) :
            edit_ops[n].type = "Match" =>
                /\ edit_ops[n].i < Len(source)
                /\ edit_ops[n].j < Len(target)
                /\ source[edit_ops[n].i + 1] = target[edit_ops[n].j + 1]

\* C5: a computation with source = target = A, under any cost triple, has
\* distance() = 0 and edit_ops() = Match(0,0), ..., Match(Len(A)-1, Len(A)-1).
C5_IdenticalIsAllMatch ==
    (pc = "done" /\ source = target) =>
        /\ distance = 0
        /\ edit_ops = [n \in 1..Len(source) |-> [type |-> "Match", i |-> n - 1, j |-> n - 1]]

C5_Witness ==
    /\ pc = "done"
    /\ source = target
    /\ Len(source) >= 2
    /\ costs[1] < 0 /\ costs[2] > 0 /\ costs[3] = 0
    /\ Len(edit_ops) = Len(source)

\* C6: with insertion cost = deletion cost (both non-negative),
\* distance(A, B) = distance(B, A); with different insertion and deletion
\* costs there are A, B whose two distances differ.
C6_SymmetryIffEqualCosts ==
    /\ (pc = "done" /\ NonNegative(costs) /\ costs[1] = costs[2]) =>
          distance = Dist(target, source, costs)
    /\ Dist(<<"a">>, <<>>, <<1, 2, 0>>) # Dist(<<>>, <<"a">>, <<1, 2, 0>>)

C6_Witness ==
    /\ pc = "done"
    /\ costs[1] = costs[2] /\ costs[1] > 0 /\ costs[3] # costs[1]
    /\ Len(source) # Len(target)
    /\ Len(source) >= 1 /\ Len(target) >= 1
    /\ distance > 0
    /\ distance = Dist(target, source, costs)

\* C7: with costs (1, 1, 1), distance(A, C) <= distance(A, B) + distance(B, C)
\* for all sequences A, B, C.
C7_TriangleInequality ==
    (pc = "done" /\ costs = <<1, 1, 1>>) =>
        \A B \in Strs : distance <= Dist(source, B, costs) + Dist(B, target, costs)

C7_Witness ==
    /\ pc = "done"
    /\ costs = <<1, 1, 1>>
    /\ distance >= 2
    /\ \E B \in Strs :
          /\ B # source /\ B # target
          /\ distance = Dist(source, B, costs) + Dist(B, target, costs)

AnyGuard(M, r, k, c) ==
    \/ MatchGuard(M, r, k, c)
    \/ SubstitutionGuard(M, r, k, c)
    \/ DeletionGuard(M, r, k, c)
    \/ InsertionGuard(M, r, k, c)

\* C8: for non-negative costs, at every cell the backtrace visits on the
\* matrix the constructor built one of the four guards holds, every
\* iteration lowers i + j, and the backtrace ends at (0, 0) after at most
\* Len(source) + Len(target) iterations.
C8_BacktraceTerminates ==
    NonNegative(costs) =>
        /\ (pc = "backtrace" /\ ~(i = 0 /\ j = 0)) =>
              /\ AnyGuard(D, i, j, costs)
              /\ ENABLED BacktraceStep
        /\ (pc = "backtrace" /\ i = 0 /\ j = 0) => ENABLED BacktraceReturn
        /\ pc # "init" =>
              /\ i \in 0..Len(source)
              /\ j \in 0..Len(target)
              /\ iters + i + j <= Len(source) + Len(target)
        /\ pc = "done" => (i = 0 /\ j = 0 /\ iters <= Len(source) + Len(target))

C8_Witness ==
    /\ pc = "done"
    /\ Len(source) >= 2 /\ Len(target) >= 2
    /\ iters = Len(source) + Len(target)

\* C9: a backtrace at a cell other than (0, 0) where none of the four
\* guards holds stops with the fatal outcome CorruptMatrixError: it neither
\* stays in the loop nor returns a script.
C9_CorruptMatrixIsFatal ==
    [][(pc = "backtrace" /\ ~(i = 0 /\ j = 0) /\ ~AnyGuard(D, i, j, costs))
          => pc' = "CorruptMatrixError"]_vars

====
